---- MODULE Spec2Model ----
(***************************************************************************)
(* Model of the dithering-g demo page (src/src/App.tsx, Helmet.tsx).        *)
(*                                                                         *)
(*  - DemoName: the glitch animator, a chain of setTimeout callbacks that   *)
(*    drives iconOpacity through bursts of opacity steps separated by a     *)
(*    random pause.                                                         *)
(*  - App: the resize handler that sets modelScale, and the background      *)
(*    colour effect.                                                        *)
(*  - Helmet: the search for the first mesh of the loaded GLTF node map.    *)
(*                                                                         *)
(* Time is a simulated clock in milliseconds: a timer fires exactly when    *)
(* the clock reaches its due time, timers due at the same time fire in the  *)
(* order they were created.  Opacities are in hundredths (0.6 is 60), the   *)
(* model scale is in hundredths (2.08 is 208).                              *)
(***************************************************************************)
EXTENDS Integers, Sequences, FiniteSets, TLC

VARIABLES
    cfg,                    \* the animator's constants (steps, delays)
    now,                    \* simulated clock, ms
    timers,                 \* pending setTimeout timers
    nextTimerId,            \* next handle setTimeout returns
    effectRuns,             \* how many times the DemoName effect body ran
    startAnimationTimeout,  \* per effect run: handle of its warm-up timer
    currentStepInSequence,  \* per effect run: the closure's step counter
    cleanedUp,              \* per effect run: its cleanup has run
    glitchTimeoutRef,       \* glitchTimeoutRef.current (0 is null)
    iconOpacity,            \* the iconOpacity state
    history,                \* log of the setIconOpacity calls
    waits,                  \* log of the idle-waits scheduled
    appPhase,               \* App: "init", "mounted", "unmounted"
    innerWidth,             \* window.innerWidth
    modelScale,             \* the modelScale state
    resizeListeners,        \* listeners registered for 'resize'
    bgColor,                \* the bgColor control value
    rendererRef,            \* rendererRef.current (FALSE is null)
    clearColor,             \* the renderer's clear colour
    setClearColorCalls,     \* number of setClearColor calls made
    bgEffectPending,        \* the bgColor effect of the last render has not run
    nodes,                  \* Helmet: the GLTF node map, in enumeration order
    helmetRenders,          \* Helmet: number of times the component rendered
    helmetOut,              \* Helmet: what the last render returned
    helmetObject,           \* Helmet: index of the node given to <primitive>
    helmetWarnings          \* Helmet: number of console.warn calls

animVars == <<cfg, now, timers, nextTimerId, effectRuns, startAnimationTimeout,
              currentStepInSequence, cleanedUp, glitchTimeoutRef, iconOpacity,
              history, waits>>
appVars == <<appPhase, innerWidth, modelScale, resizeListeners, bgColor,
             rendererRef, clearColor, setClearColorCalls, bgEffectPending>>
helmetVars == <<nodes, helmetRenders, helmetOut, helmetObject, helmetWarnings>>
vars == <<animVars, appVars, helmetVars>>

----------------------------------------------------------------------------
(* Bounds of the model *)

\* the clock of the reference animator stops here
MaxTime == 8000
\* the clock of the scenario animator stops here
MaxTimeScenario == 200
\* the clock is sampled every TimeGrid ms and at every due time of a timer
TimeGrid == 10
\* significand bits of the floating-point numbers (53 in a JavaScript double)
FloatBits == 12
\* the clock stops here once the effect body has run more than once
MaxTimeDouble == 2600
\* setClearColor calls after which the background colour stops changing
MaxClearColorCalls == 3
\* longest GLTF node map
MaxNodes == 4
\* how many times Helmet renders
MaxHelmetRenders == 2

----------------------------------------------------------------------------
(* Floating point: a number x is held as the integer x * 2^FloatBits, and   *)
(* every arithmetic result is rounded to FloatBits significant bits, ties   *)
(* to even, as IEEE-754 does with 53 bits.                                  *)

FloatScale == 2 ^ FloatBits

Min(a, b) == IF a <= b THEN a ELSE b

RECURSIVE BitLength(_)
BitLength(n) == IF n = 0 THEN 0 ELSE 1 + BitLength(n \div 2)

RoundToPrecision(n) ==
    IF BitLength(n) <= FloatBits THEN n
    ELSE LET q   == 2 ^ (BitLength(n) - FloatBits)
             lo  == n \div q
             rem == n - lo * q
         IN  IF 2 * rem < q THEN lo * q
             ELSE IF 2 * rem > q THEN (lo + 1) * q
             ELSE IF lo % 2 = 0 THEN lo * q ELSE (lo + 1) * q

\* the values Math.random() returns: m / 2^FloatBits, 0 <= m < 2^FloatBits
MathRandomAll == 0 .. (FloatScale - 1)
\* the draws the animator is run with: smallest, middle and largest value
MathRandom == {0, FloatScale \div 2, FloatScale - 1}

\* conversion of a setTimeout delay to whole milliseconds (truncation)
TimeoutDelay(x) == x \div FloatScale

----------------------------------------------------------------------------
(* DemoName: constants *)

glitchSteps == <<60, 20, 80, 40, 100>>
stepInterval == 75
minPause == 1500
maxPause == 2500
warmupDelay == 2000

ReferenceConfig ==
    [steps |-> glitchSteps, stepInterval |-> stepInterval,
     minPause |-> minPause, maxPause |-> maxPause, warmup |-> warmupDelay]

\* the animator with the compressed timings of the deterministic scenario
ScenarioConfig ==
    [steps |-> <<10, 90>>, stepInterval |-> 10,
     minPause |-> 20, maxPause |-> 20, warmup |-> 0]

Horizon ==
    IF effectRuns > 1 THEN MaxTimeDouble
    ELSE IF cfg = ReferenceConfig THEN MaxTime ELSE MaxTimeScenario

\* Math.random() * (2500 - 1500) + 1500, m the value Math.random() returned
randomLoopInterval(m) ==
    RoundToPrecision(
        RoundToPrecision(m * (cfg.maxPause - cfg.minPause))
        + cfg.minPause * FloatScale)

----------------------------------------------------------------------------
(* DemoName: timers *)

\* the first and the second run of the effect body
Chains == {1, 2}

\* the timer window.setTimeout(cb, delay) creates for effect run c
NewTimer(cb, delay, c) ==
    [id |-> nextTimerId, due |-> now + delay, cb |-> cb, chain |-> c]

\* t is the pending timer the event loop runs next
IsNextDue(t) ==
    /\ t \in timers
    /\ t.due <= now
    /\ \A u \in timers :
          u.due > t.due \/ (u.due = t.due /\ u.id >= t.id)

\* clearTimeout(id) applied to the set of pending timers
ClearTimeout(pending, id) == {t \in pending : t.id # id}

----------------------------------------------------------------------------
(* DemoName: the effect (App.tsx 19-53) *)

\* animateNextStep() without its else: the idle-wait is also scheduled after
\* every step
AnimateNextStepNoElse(c, cur, pending) ==
    \E m \in MathRandom :
    LET delay == TimeoutDelay(randomLoopInterval(m))
        idle  == [id |-> nextTimerId + 1, due |-> now + delay,
                  cb |-> "runFullGlitchSequence", chain |-> c]
    IN
    IF cur < Len(cfg.steps)
    THEN /\ iconOpacity' = cfg.steps[cur + 1]
         /\ history' = Append(history,
                [t |-> now, v |-> cfg.steps[cur + 1], chain |-> c])
         /\ currentStepInSequence' =
                [currentStepInSequence EXCEPT ![c] = cur + 1]
         /\ timers' = pending \cup
                {NewTimer("animateNextStep", cfg.stepInterval, c), idle}
         /\ glitchTimeoutRef' = nextTimerId + 1
         /\ nextTimerId' = nextTimerId + 2
         /\ waits' = Append(waits, [t |-> now, delay |-> delay, chain |-> c])
    ELSE /\ timers' = pending \cup
                {NewTimer("runFullGlitchSequence", delay, c)}
         /\ glitchTimeoutRef' = nextTimerId
         /\ nextTimerId' = nextTimerId + 1
         /\ waits' = Append(waits, [t |-> now, delay |-> delay, chain |-> c])
         /\ currentStepInSequence' =
                [currentStepInSequence EXCEPT ![c] = cur]
         /\ UNCHANGED <<iconOpacity, history>>

\* animateNextStep() indexing the step list from its end
AnimateNextStepReversed(c, cur, pending) ==
    IF cur < Len(cfg.steps)
    THEN /\ iconOpacity' = cfg.steps[Len(cfg.steps) - cur]
         /\ history' = Append(history,
                [t |-> now, v |-> cfg.steps[Len(cfg.steps) - cur], chain |-> c])
         /\ currentStepInSequence' =
                [currentStepInSequence EXCEPT ![c] = cur + 1]
         /\ timers' = pending \cup
                {NewTimer("animateNextStep", cfg.stepInterval, c)}
         /\ glitchTimeoutRef' = nextTimerId
         /\ nextTimerId' = nextTimerId + 1
         /\ UNCHANGED waits
    ELSE \E m \in MathRandom :
         LET delay == TimeoutDelay(randomLoopInterval(m)) IN
         /\ timers' = pending \cup
                {NewTimer("runFullGlitchSequence", delay, c)}
         /\ glitchTimeoutRef' = nextTimerId
         /\ nextTimerId' = nextTimerId + 1
         /\ waits' = Append(waits, [t |-> now, delay |-> delay, chain |-> c])
         /\ currentStepInSequence' =
                [currentStepInSequence EXCEPT ![c] = cur]
         /\ UNCHANGED <<iconOpacity, history>>

\* animateNextStep() scheduling the idle-wait in the tick of the last step
AnimateNextStepNoTrailingTick(c, cur, pending) ==
    IF cur + 1 < Len(cfg.steps)
    THEN /\ iconOpacity' = cfg.steps[cur + 1]
         /\ history' = Append(history,
                [t |-> now, v |-> cfg.steps[cur + 1], chain |-> c])
         /\ currentStepInSequence' =
                [currentStepInSequence EXCEPT ![c] = cur + 1]
         /\ timers' = pending \cup
                {NewTimer("animateNextStep", cfg.stepInterval, c)}
         /\ glitchTimeoutRef' = nextTimerId
         /\ nextTimerId' = nextTimerId + 1
         /\ UNCHANGED waits
    ELSE \E m \in MathRandom :
         LET delay == TimeoutDelay(randomLoopInterval(m)) IN
         /\ iconOpacity' = cfg.steps[cur + 1]
         /\ history' = Append(history,
                [t |-> now, v |-> cfg.steps[cur + 1], chain |-> c])
         /\ timers' = pending \cup
                {NewTimer("runFullGlitchSequence", delay, c)}
         /\ glitchTimeoutRef' = nextTimerId
         /\ nextTimerId' = nextTimerId + 1
         /\ waits' = Append(waits, [t |-> now, delay |-> delay, chain |-> c])
         /\ currentStepInSequence' =
                [currentStepInSequence EXCEPT ![c] = cur + 1]

\* animateNextStep() with <= in its test: one more step is taken, with the
\* element past the end of the list (undefined, shown as -1)
AnimateNextStepOffByOne(c, cur, pending) ==
    IF cur <= Len(cfg.steps)
    THEN LET value == IF cur < Len(cfg.steps) THEN cfg.steps[cur + 1] ELSE -1
         IN
         /\ iconOpacity' = value
         /\ history' = Append(history, [t |-> now, v |-> value, chain |-> c])
         /\ currentStepInSequence' =
                [currentStepInSequence EXCEPT ![c] = cur + 1]
         /\ timers' = pending \cup
                {NewTimer("animateNextStep", cfg.stepInterval, c)}
         /\ glitchTimeoutRef' = nextTimerId
         /\ nextTimerId' = nextTimerId + 1
         /\ UNCHANGED waits
    ELSE \E m \in MathRandom :
         LET delay == TimeoutDelay(randomLoopInterval(m)) IN
         /\ timers' = pending \cup
                {NewTimer("runFullGlitchSequence", delay, c)}
         /\ glitchTimeoutRef' = nextTimerId
         /\ nextTimerId' = nextTimerId + 1
         /\ waits' = Append(waits, [t |-> now, delay |-> delay, chain |-> c])
         /\ currentStepInSequence' =
                [currentStepInSequence EXCEPT ![c] = cur]
         /\ UNCHANGED <<iconOpacity, history>>

\* animateNextStep() that does not keep the handle of the idle-wait timer
AnimateNextStepHandleDropped(c, cur, pending) ==
    IF cur < Len(cfg.steps)
    THEN /\ iconOpacity' = cfg.steps[cur + 1]
         /\ history' = Append(history,
                [t |-> now, v |-> cfg.steps[cur + 1], chain |-> c])
         /\ currentStepInSequence' =
                [currentStepInSequence EXCEPT ![c] = cur + 1]
         /\ timers' = pending \cup
                {NewTimer("animateNextStep", cfg.stepInterval, c)}
         /\ glitchTimeoutRef' = nextTimerId
         /\ nextTimerId' = nextTimerId + 1
         /\ UNCHANGED waits
    ELSE \E m \in MathRandom :
         LET delay == TimeoutDelay(randomLoopInterval(m)) IN
         /\ timers' = pending \cup
                {NewTimer("runFullGlitchSequence", delay, c)}
         /\ nextTimerId' = nextTimerId + 1
         /\ waits' = Append(waits, [t |-> now, delay |-> delay, chain |-> c])
         /\ currentStepInSequence' =
                [currentStepInSequence EXCEPT ![c] = cur]
         /\ UNCHANGED <<iconOpacity, history, glitchTimeoutRef>>

\* animateNextStep() of effect run c, called when currentStepInSequence is
\* cur and the pending timers are pending
AnimateNextStep(c, cur, pending) ==
    IF cur < Len(cfg.steps)
    THEN /\ iconOpacity' = cfg.steps[cur + 1]
         /\ history' = Append(history,
                [t |-> now, v |-> cfg.steps[cur + 1], chain |-> c])
         /\ currentStepInSequence' =
                [currentStepInSequence EXCEPT ![c] = cur + 1]
         /\ timers' = pending \cup
                {NewTimer("animateNextStep", cfg.stepInterval, c)}
         /\ glitchTimeoutRef' = nextTimerId
         /\ nextTimerId' = nextTimerId + 1
         /\ UNCHANGED waits
    ELSE \E m \in MathRandom :
         LET delay == TimeoutDelay(randomLoopInterval(m)) IN
         /\ timers' = pending \cup
                {NewTimer("runFullGlitchSequence", delay, c)}
         /\ glitchTimeoutRef' = nextTimerId
         /\ nextTimerId' = nextTimerId + 1
         /\ waits' = Append(waits, [t |-> now, delay |-> delay, chain |-> c])
         /\ currentStepInSequence' =
                [currentStepInSequence EXCEPT ![c] = cur]
         /\ UNCHANGED <<iconOpacity, history>>

\* runFullGlitchSequence() without the reset of the step counter
RunFullGlitchSequenceNoReset(c, pending) ==
    AnimateNextStep(c, currentStepInSequence[c], pending)

\* runFullGlitchSequence(): reset the step counter, run the first step
RunFullGlitchSequence(c, pending) == AnimateNextStep(c, 0, pending)

\* the effect body with the warm-up delay left out
StartEffectNoDelay ==
    /\ effectRuns < Cardinality(Chains)
    /\ effectRuns' = effectRuns + 1
    /\ timers' = timers \cup {NewTimer("start", 0, effectRuns + 1)}
    /\ startAnimationTimeout' =
           [startAnimationTimeout EXCEPT ![effectRuns + 1] = nextTimerId]
    /\ nextTimerId' = nextTimerId + 1
    /\ UNCHANGED <<cfg, now, currentStepInSequence, cleanedUp,
                   glitchTimeoutRef, iconOpacity, history, waits>>

\* the effect body guarded against a second start
StartEffectGuarded ==
    /\ effectRuns < Cardinality(Chains)
    /\ effectRuns' = effectRuns + 1
    /\ IF effectRuns = 0
       THEN /\ timers' = timers \cup
                   {NewTimer("start", cfg.warmup, effectRuns + 1)}
            /\ startAnimationTimeout' =
                   [startAnimationTimeout EXCEPT ![effectRuns + 1] = nextTimerId]
            /\ nextTimerId' = nextTimerId + 1
       ELSE UNCHANGED <<timers, startAnimationTimeout, nextTimerId>>
    /\ UNCHANGED <<cfg, now, currentStepInSequence, cleanedUp,
                   glitchTimeoutRef, iconOpacity, history, waits>>

\* the effect body: schedule the warm-up timer
StartEffect ==
    /\ effectRuns < Cardinality(Chains)
    /\ effectRuns' = effectRuns + 1
    /\ timers' = timers \cup {NewTimer("start", cfg.warmup, effectRuns + 1)}
    /\ startAnimationTimeout' =
           [startAnimationTimeout EXCEPT ![effectRuns + 1] = nextTimerId]
    /\ nextTimerId' = nextTimerId + 1
    /\ UNCHANGED <<cfg, now, currentStepInSequence, cleanedUp,
                   glitchTimeoutRef, iconOpacity, history, waits>>

\* the component mounts: the effect runs once
Mount ==
    /\ effectRuns = 0
    /\ StartEffect

\* the warm-up timer fires: let currentStepInSequence = 0, first burst
FireStart(t) ==
    /\ IsNextDue(t)
    /\ t.cb = "start"
    /\ RunFullGlitchSequence(t.chain, timers \ {t})
    /\ UNCHANGED <<cfg, now, effectRuns, startAnimationTimeout, cleanedUp>>

\* an idle-wait timer fires: the next burst
FireRunFullGlitchSequence(t) ==
    /\ IsNextDue(t)
    /\ t.cb = "runFullGlitchSequence"
    /\ RunFullGlitchSequence(t.chain, timers \ {t})
    /\ UNCHANGED <<cfg, now, effectRuns, startAnimationTimeout, cleanedUp>>

\* a step timer fires
FireAnimateNextStep(t) ==
    /\ IsNextDue(t)
    /\ t.cb = "animateNextStep"
    /\ AnimateNextStep(t.chain, currentStepInSequence[t.chain], timers \ {t})
    /\ UNCHANGED <<cfg, now, effectRuns, startAnimationTimeout, cleanedUp>>

\* the cleanup clearing the warm-up timer only
CleanupStartOnly(c) ==
    /\ c <= effectRuns
    /\ ~cleanedUp[c]
    /\ timers' = ClearTimeout(timers, startAnimationTimeout[c])
    /\ cleanedUp' = [cleanedUp EXCEPT ![c] = TRUE]
    /\ UNCHANGED <<cfg, now, nextTimerId, effectRuns, startAnimationTimeout,
                   currentStepInSequence, glitchTimeoutRef, iconOpacity,
                   history, waits>>

\* the cleanup that also puts the opacity back to its initial value
CleanupResetOpacity(c) ==
    /\ c <= effectRuns
    /\ ~cleanedUp[c]
    /\ timers' =
           LET afterStart == ClearTimeout(timers, startAnimationTimeout[c])
           IN  IF glitchTimeoutRef # 0
               THEN ClearTimeout(afterStart, glitchTimeoutRef)
               ELSE afterStart
    /\ cleanedUp' = [cleanedUp EXCEPT ![c] = TRUE]
    /\ iconOpacity' = 0
    /\ UNCHANGED <<cfg, now, nextTimerId, effectRuns, startAnimationTimeout,
                   currentStepInSequence, glitchTimeoutRef, history, waits>>

\* the cleanup the effect run c returned
Cleanup(c) ==
    /\ c <= effectRuns
    /\ ~cleanedUp[c]
    /\ timers' =
           LET afterStart == ClearTimeout(timers, startAnimationTimeout[c])
           IN  IF glitchTimeoutRef # 0
               THEN ClearTimeout(afterStart, glitchTimeoutRef)
               ELSE afterStart
    /\ cleanedUp' = [cleanedUp EXCEPT ![c] = TRUE]
    /\ UNCHANGED <<cfg, now, nextTimerId, effectRuns, startAnimationTimeout,
                   currentStepInSequence, glitchTimeoutRef, iconOpacity,
                   history, waits>>

\* the clock moves to the next sample point or to the next due time,
\* whichever comes first; a timer that is due fires before the clock moves.
\* The clock starts with the first run of the effect (the mount is at 0).
Advance ==
    LET grid   == (now \div TimeGrid + 1) * TimeGrid
        target == IF timers = {} THEN grid
                  ELSE Min(grid, CHOOSE d \in {t.due : t \in timers} :
                                     \A t \in timers : d <= t.due)
    IN  /\ effectRuns > 0
        /\ \A t \in timers : t.due > now
        /\ target <= Horizon
        /\ now' = target
        /\ UNCHANGED <<cfg, timers, nextTimerId, effectRuns,
                       startAnimationTimeout, currentStepInSequence, cleanedUp,
                       glitchTimeoutRef, iconOpacity, history, waits>>

----------------------------------------------------------------------------
(* Initial states *)

AnimInit(c) ==
    /\ cfg = c
    /\ now = 0
    /\ timers = {}
    /\ nextTimerId = 1
    /\ effectRuns = 0
    /\ startAnimationTimeout = [c1 \in Chains |-> 0]
    /\ currentStepInSequence = [c1 \in Chains |-> 0]
    /\ cleanedUp = [c1 \in Chains |-> FALSE]
    /\ glitchTimeoutRef = 0
    /\ iconOpacity = 0
    /\ history = << >>
    /\ waits = << >>

AppIdle ==
    /\ appPhase = "init"
    /\ innerWidth = 1024
    /\ modelScale = 260
    /\ resizeListeners = {}
    /\ bgColor = "#ffffff"
    /\ rendererRef = FALSE
    /\ clearColor = "none"
    /\ setClearColorCalls = 0
    /\ bgEffectPending = FALSE

HelmetIdle ==
    /\ nodes = << >>
    /\ helmetRenders = 0
    /\ helmetOut = "unrendered"
    /\ helmetObject = 0
    /\ helmetWarnings = 0

Init == AnimInit(ReferenceConfig) /\ AppIdle /\ HelmetIdle

InitScenario == AnimInit(ScenarioConfig) /\ AppIdle /\ HelmetIdle

----------------------------------------------------------------------------
(* Specifications of the animator *)

Next ==
    \/ Mount /\ UNCHANGED <<appVars, helmetVars>>
    \/ \E t \in timers : FireStart(t) /\ UNCHANGED <<appVars, helmetVars>>
    \/ \E t \in timers :
          FireAnimateNextStep(t) /\ UNCHANGED <<appVars, helmetVars>>
    \/ \E t \in timers :
          FireRunFullGlitchSequence(t) /\ UNCHANGED <<appVars, helmetVars>>
    \/ Cleanup(1) /\ UNCHANGED <<appVars, helmetVars>>
    \/ Advance /\ UNCHANGED <<appVars, helmetVars>>

\* one mount of DemoName with the constants of the source
Spec == Init /\ [][Next]_vars

\* a pending timer that is due fires
TimerFires ==
    /\ \E t \in timers :
          \/ FireStart(t)
          \/ FireAnimateNextStep(t)
          \/ FireRunFullGlitchSequence(t)
    /\ UNCHANGED <<appVars, helmetVars>>

\* the clock moves on
TimePasses == Advance /\ UNCHANGED <<appVars, helmetVars>>

\* one mount; time passes and due timers fire, the unmount may never come
SpecLive == Spec /\ WF_vars(TimePasses) /\ WF_vars(TimerFires)

\* one mount of the animator with the constants of the scenario
SpecScenario == InitScenario /\ [][Next]_vars

\* the effect body run twice, the two cleanups in any order
NextDouble ==
    \/ StartEffect /\ UNCHANGED <<appVars, helmetVars>>
    \/ \E t \in timers : FireStart(t) /\ UNCHANGED <<appVars, helmetVars>>
    \/ \E t \in timers :
          FireAnimateNextStep(t) /\ UNCHANGED <<appVars, helmetVars>>
    \/ \E t \in timers :
          FireRunFullGlitchSequence(t) /\ UNCHANGED <<appVars, helmetVars>>
    \/ \E c \in Chains : Cleanup(c) /\ UNCHANGED <<appVars, helmetVars>>
    \/ Advance /\ UNCHANGED <<appVars, helmetVars>>

SpecDouble == Init /\ [][NextDouble]_vars

----------------------------------------------------------------------------
(* App (App.tsx 95-184) *)

Widths == {500, 767, 768, 769, 1024}
Colors == {"#ffffff", "#000000", "#066aff"}

\* handleResize() with the boundary width on the large side
ScaleForStrict(w) == IF w < 768 THEN 208 ELSE 260

\* handleResize(): the scale for the window width w
ScaleFor(w) == IF w <= 768 THEN 208 ELSE 260

\* the effects of the first commit: the bgColor effect, then the resize
\* effect (handleResize(), addEventListener)
AppMount ==
    /\ appPhase = "init"
    /\ appPhase' = "mounted"
    /\ IF rendererRef
       THEN /\ clearColor' = bgColor
            /\ setClearColorCalls' = setClearColorCalls + 1
       ELSE UNCHANGED <<clearColor, setClearColorCalls>>
    /\ modelScale' = ScaleFor(innerWidth)
    /\ resizeListeners' = resizeListeners \cup {"handleResize"}
    /\ UNCHANGED <<innerWidth, bgColor, rendererRef, bgEffectPending>>

\* the window is resized to width w: every registered listener runs
ResizeEvent(w) ==
    /\ innerWidth' = w
    /\ modelScale' = IF "handleResize" \in resizeListeners
                     THEN ScaleFor(w) ELSE modelScale
    /\ UNCHANGED <<appPhase, resizeListeners, bgColor, rendererRef,
                   clearColor, setClearColorCalls, bgEffectPending>>

\* the unmount with the listener left registered
AppUnmountNoRemove ==
    /\ appPhase = "mounted"
    /\ ~bgEffectPending
    /\ appPhase' = "unmounted"
    /\ UNCHANGED <<innerWidth, modelScale, resizeListeners, bgColor,
                   rendererRef, clearColor, setClearColorCalls, bgEffectPending>>

\* the unmount: the cleanup of the resize effect (effects that are pending
\* run before the unmount is processed)
AppUnmount ==
    /\ appPhase = "mounted"
    /\ ~bgEffectPending
    /\ appPhase' = "unmounted"
    /\ resizeListeners' = resizeListeners \ {"handleResize"}
    /\ UNCHANGED <<innerWidth, modelScale, bgColor, rendererRef, clearColor,
                   setClearColorCalls, bgEffectPending>>

\* the control panel sets bgColor to c: App renders again with the new
\* value, the bgColor effect of that render is pending (the effect of one
\* render has run before the next render starts)
SetBgColor(c) ==
    /\ appPhase = "mounted"
    /\ ~bgEffectPending
    /\ c # bgColor
    /\ setClearColorCalls < MaxClearColorCalls
    /\ bgColor' = c
    /\ bgEffectPending' = TRUE
    /\ UNCHANGED <<appPhase, innerWidth, modelScale, resizeListeners,
                   rendererRef, clearColor, setClearColorCalls>>

\* the bgColor effect as if its dependency array were empty: it does not run
\* again after a change
BgColorEffectMountOnly ==
    /\ bgEffectPending
    /\ bgEffectPending' = FALSE
    /\ UNCHANGED <<appPhase, innerWidth, modelScale, resizeListeners, bgColor,
                   rendererRef, clearColor, setClearColorCalls>>

\* the bgColor effect runs after a change of bgColor
BgColorEffect ==
    /\ bgEffectPending
    /\ bgEffectPending' = FALSE
    /\ IF rendererRef
       THEN /\ clearColor' = bgColor
            /\ setClearColorCalls' = setClearColorCalls + 1
       ELSE UNCHANGED <<clearColor, setClearColorCalls>>
    /\ UNCHANGED <<appPhase, innerWidth, modelScale, resizeListeners, bgColor,
                   rendererRef>>

\* Canvas calls onCreated with the renderer; the callback is the one of the
\* latest render of App, so the bgColor it reads is the current one
OnCreated ==
    /\ appPhase \in {"init", "mounted"}
    /\ ~rendererRef
    /\ rendererRef' = TRUE
    /\ clearColor' = bgColor
    /\ setClearColorCalls' = setClearColorCalls + 1
    /\ UNCHANGED <<appPhase, innerWidth, modelScale, resizeListeners, bgColor,
                   bgEffectPending>>

AppInit ==
    /\ appPhase = "init"
    /\ innerWidth \in Widths
    /\ modelScale = 260
    /\ resizeListeners = {}
    /\ bgColor = "#ffffff"
    /\ rendererRef = FALSE
    /\ clearColor = "none"
    /\ setClearColorCalls = 0
    /\ bgEffectPending = FALSE

NextApp ==
    \/ AppMount /\ UNCHANGED <<animVars, helmetVars>>
    \/ \E w \in Widths : ResizeEvent(w) /\ UNCHANGED <<animVars, helmetVars>>
    \/ AppUnmount /\ UNCHANGED <<animVars, helmetVars>>
    \/ \E c \in Colors : SetBgColor(c) /\ UNCHANGED <<animVars, helmetVars>>
    \/ BgColorEffect /\ UNCHANGED <<animVars, helmetVars>>
    \/ OnCreated /\ UNCHANGED <<animVars, helmetVars>>

InitApp == AnimInit(ReferenceConfig) /\ AppInit /\ HelmetIdle

SpecApp == InitApp /\ [][NextApp]_vars

----------------------------------------------------------------------------
(* Helmet (Helmet.tsx 12-41) *)

\* what a node of the GLTF node map can be
NodeKinds == {"Mesh", "Group", "Object3D"}

\* nodes[nodeName] instanceof THREE.Mesh
IsMesh(node) == node = "Mesh"

\* the for-in loop without its break: the last mesh at or after i wins
RECURSIVE FindFirstMeshNoBreak(_, _)
FindFirstMeshNoBreak(map, i) ==
    IF i > Len(map) THEN 0
    ELSE LET later == FindFirstMeshNoBreak(map, i + 1)
         IN  IF later # 0 THEN later
             ELSE IF IsMesh(map[i]) THEN i ELSE 0

\* the for-in loop: the index of the first mesh at or after i, 0 if none
RECURSIVE FindFirstMesh(_, _)
FindFirstMesh(map, i) ==
    IF i > Len(map) THEN 0
    ELSE IF IsMesh(map[i]) THEN i
    ELSE FindFirstMesh(map, i + 1)

\* one render of Helmet without the check of firstMesh
RenderHelmetNoGuard ==
    LET firstMesh == FindFirstMesh(nodes, 1) IN
    /\ helmetRenders < MaxHelmetRenders
    /\ helmetRenders' = helmetRenders + 1
    /\ helmetOut' = "group"
    /\ helmetObject' = firstMesh
    /\ UNCHANGED <<nodes, helmetWarnings>>

\* one render of Helmet
RenderHelmet ==
    LET firstMesh == FindFirstMesh(nodes, 1) IN
    /\ helmetRenders < MaxHelmetRenders
    /\ helmetRenders' = helmetRenders + 1
    /\ IF firstMesh = 0
       THEN /\ helmetWarnings' = helmetWarnings + 1
            /\ helmetOut' = "null"
            /\ helmetObject' = 0
       ELSE /\ helmetOut' = "group"
            /\ helmetObject' = firstMesh
            /\ UNCHANGED helmetWarnings
    /\ UNCHANGED nodes

RECURSIVE SeqsUpTo(_, _)
SeqsUpTo(S, n) ==
    IF n = 0 THEN {<< >>}
    ELSE LET shorter == SeqsUpTo(S, n - 1)
         IN  shorter \cup {Append(q, x) : q \in shorter, x \in S}

HelmetInit ==
    /\ nodes \in SeqsUpTo(NodeKinds, MaxNodes)
    /\ helmetRenders = 0
    /\ helmetOut = "unrendered"
    /\ helmetObject = 0
    /\ helmetWarnings = 0

NextHelmet == RenderHelmet /\ UNCHANGED <<animVars, appVars>>

InitHelmet == AnimInit(ReferenceConfig) /\ AppIdle /\ HelmetInit

SpecHelmet == InitHelmet /\ [][NextHelmet]_vars

----------------------------------------------------------------------------
(* Properties of the animator *)

\* the values emitted so far, in order
Emitted == [k \in 1 .. Len(history) |-> history[k].v]

\* the step the k-th emission of one chain must show
StepAt(k) == cfg.steps[((k - 1) % Len(cfg.steps)) + 1]

\* no timer is due: everything scheduled up to the current time has run
Settled == \A t \in timers : t.due > now

\* C1: once the cleanup of the effect has run, no timer of the animator is
\* pending and no step changes the opacity or emits again, also when the
\* clock is advanced past every delay that was pending.
C1_Cancellation ==
    /\ [](cleanedUp[1] => timers = {})
    /\ [][cleanedUp[1] =>
            /\ timers' = {}
            /\ history' = history
            /\ iconOpacity' = iconOpacity]_vars

\* stopped during the first idle-wait, the clock then moved past its due time
C1_Witness ==
    /\ cleanedUp[1]
    /\ Len(history) = Len(cfg.steps)
    /\ Len(waits) = 1
    /\ now > waits[1].t + waits[1].delay

\* C2: for one mount the animator has at most one pending timer, the
\* warm-up timer and the timers of the glitch chain counted together.
C2_AtMostOneTimer == Cardinality(timers) <= 1

\* the warm-up timer has fired and a timer of the glitch chain is pending
C2_Witness ==
    /\ Cardinality(timers) = 1
    /\ \E t \in timers : t.cb = "runFullGlitchSequence"
    /\ ~cleanedUp[1]

\* C3: the k-th emission is S[k mod n]; within a burst the emission of S[j]
\* comes j * d after the emission of S[0], and two consecutive emissions of
\* a burst are at least d apart.
C3_EmissionOrder ==
    \A k \in 1 .. Len(history) :
        LET j == (k - 1) % Len(cfg.steps) IN
        /\ history[k].v = cfg.steps[j + 1]
        /\ history[k].t - history[k - j].t = j * cfg.stepInterval
        /\ j > 0 => history[k].t - history[k - 1].t >= cfg.stepInterval

\* two full bursts have been emitted
C3_Witness ==
    /\ Len(history) = 2 * Len(cfg.steps)
    /\ Emitted = cfg.steps \o cfg.steps

\* the time from the last emission of burst b to the first of burst b + 1
BurstGap(b) ==
    history[b * Len(cfg.steps) + 1].t - history[b * Len(cfg.steps)].t

\* C4 as stated: the time between the last emission of a burst and the first
\* emission of the next one is the one idle-wait delay, drawn from
\* [minPause, maxPause), and the next emission is S[0].
C4_GapIsIdleWait ==
    \A b \in 1 .. Len(waits) :
        b * Len(cfg.steps) + 1 <= Len(history) =>
            /\ BurstGap(b) = waits[b].delay
            /\ cfg.minPause <= BurstGap(b)
            /\ BurstGap(b) < cfg.maxPause
            /\ history[b * Len(cfg.steps) + 1].v = cfg.steps[1]

\* C4 amended: between two bursts there is one trailing tick, which emits
\* nothing and schedules the idle-wait stepInterval after the last emission,
\* and exactly one idle-wait; the time between the two emissions is
\* stepInterval plus the idle-wait delay, the delay is at least minPause and
\* at most maxPause, and the next emission is S[0].
C4_GapIsTickPlusIdleWait ==
    /\ Len(waits) * Len(cfg.steps) <= Len(history)
    /\ Len(history) <= (Len(waits) + 1) * Len(cfg.steps)
    /\ \A b \in 1 .. Len(waits) :
          /\ waits[b].t = history[b * Len(cfg.steps)].t + cfg.stepInterval
          /\ cfg.minPause <= waits[b].delay
          /\ waits[b].delay <= cfg.maxPause
          /\ b * Len(cfg.steps) + 1 <= Len(history) =>
                /\ BurstGap(b) = cfg.stepInterval + waits[b].delay
                /\ history[b * Len(cfg.steps) + 1].v = cfg.steps[1]

\* the second burst has started after the first idle-wait
C4_Witness ==
    /\ Len(waits) = 1
    /\ Len(history) = Len(cfg.steps) + 1
    /\ iconOpacity = cfg.steps[1]

\* C5: steps [0.1, 0.9], stepInterval 10, pause 20, warm-up 0: the clock
\* advanced to 0, 10, 20, 30, 40, 50 shows 0.1, 0.9, no emission at 20 and
\* 30, then 0.1 and 0.9; four emissions have occurred at 50 ms.
C5_Scenario ==
    (cfg = ScenarioConfig /\ effectRuns = 1 /\ ~cleanedUp[1] /\ Settled) =>
        /\ now < 10 => Emitted = <<10>>
        /\ (10 <= now /\ now < 40) => Emitted = <<10, 90>>
        /\ (40 <= now /\ now < 50) => Emitted = <<10, 90, 10>>
        /\ now = 50 => Emitted = <<10, 90, 10, 90>>
        /\ now <= 50 => iconOpacity = Emitted[Len(Emitted)]

\* the clock is at 50 ms and the second burst is complete
C5_Witness ==
    /\ cfg = ScenarioConfig
    /\ now = 50
    /\ Settled
    /\ ~cleanedUp[1]
    /\ Len(history) = 4

\* C6: nothing is emitted and the opacity stays 0 until the warm-up delay has
\* passed; the first emission is S[0], made when the warm-up timer fires.
C6_WarmUp ==
    /\ (effectRuns = 0 \/ now < cfg.warmup \/ \E t \in timers : t.cb = "start")
          => (history = << >> /\ iconOpacity = 0)
    /\ history # << >> =>
          /\ history[1].v = cfg.steps[1]
          /\ history[1].t = cfg.warmup

\* the warm-up timer has just fired
C6_Witness ==
    /\ Len(history) = 1
    /\ now = cfg.warmup
    /\ currentStepInSequence[1] = 1
    /\ iconOpacity = cfg.steps[1]

\* the longest time from one emission to the next
MaxEmissionGap == stepInterval + maxPause

\* C7: while the view stays mounted and due timers fire, every emission is
\* followed by the next one of the cycle, and a completed burst by a new
\* burst that starts at S[0] (for emissions that leave the clock room for
\* the longest gap).
C7_Liveness ==
    \A s \in 1 .. Len(glitchSteps) :
        (/\ currentStepInSequence[1] = s
         /\ history # << >>
         /\ ~cleanedUp[1]
         /\ now + MaxEmissionGap <= MaxTime)
        ~> (\/ cleanedUp[1]
            \/ /\ currentStepInSequence[1] = (s % Len(glitchSteps)) + 1
               /\ iconOpacity = glitchSteps[(s % Len(glitchSteps)) + 1])

\* the third burst has started and the view is still mounted
C7_Witness ==
    /\ ~cleanedUp[1]
    /\ Len(history) = 2 * Len(cfg.steps) + 1
    /\ currentStepInSequence[1] = 1

\* the emissions of effect run c
EmissionsOf(c) == SelectSeq(history, LAMBDA e : e.chain = c)

\* C9: after two starts without a stop there are two timer chains: two
\* timers are pending, one of each effect run, and each run steps through
\* the list with its own counter.
C9_DoubleStart ==
    (effectRuns = 2 /\ ~cleanedUp[1] /\ ~cleanedUp[2]) =>
        /\ Cardinality(timers) = 2
        /\ {t.chain : t \in timers} = {1, 2}
        /\ \A c \in Chains :
              \A k \in 1 .. Len(EmissionsOf(c)) : EmissionsOf(c)[k].v = StepAt(k)

\* both chains have emitted, two timers are pending, the slot holds one
C9_Witness ==
    /\ effectRuns = 2
    /\ ~cleanedUp[1] /\ ~cleanedUp[2]
    /\ Cardinality(timers) = 2
    /\ EmissionsOf(1) # << >>
    /\ EmissionsOf(2) # << >>
    /\ \E t \in timers : t.id = glitchTimeoutRef
    /\ \E t \in timers : t.id # glitchTimeoutRef /\ t.cb # "start"

\* C11: every idle-wait delay passed to the timer is at least minPause and
\* strictly less than maxPause.
C11_DelayInRange ==
    \A b \in 1 .. Len(waits) :
        /\ cfg.minPause <= waits[b].delay
        /\ waits[b].delay < cfg.maxPause

\* the values of the step list
StepValues == {cfg.steps[i] : i \in 1 .. Len(cfg.steps)}

\* C13: currentStepInSequence stays between 0 and glitchSteps.length,
\* setIconOpacity is only called with an element of glitchSteps, and the
\* opacity shown is 0 or an element of the list, so within [0, 1].
C13_StepAndOpacityRange ==
    /\ \A c \in Chains :
          /\ 0 <= currentStepInSequence[c]
          /\ currentStepInSequence[c] <= Len(cfg.steps)
    /\ \A k \in 1 .. Len(history) : history[k].v \in StepValues
    /\ iconOpacity \in {0} \cup StepValues
    /\ 0 <= iconOpacity
    /\ iconOpacity <= 100

\* the counter has reached the length of the list: the trailing tick is due
C13_Witness ==
    /\ currentStepInSequence[1] = Len(cfg.steps)
    /\ \E t \in timers : t.cb = "animateNextStep" /\ t.due = now
    /\ iconOpacity = cfg.steps[Len(cfg.steps)]

\* C14: from the firing of the warm-up timer until the cleanup exactly one
\* timer is pending, a timer of the glitch chain, and glitchTimeoutRef holds
\* its handle; so the cleanup leaves no timer pending.
C14_HandleTracking ==
    /\ (history # << >> /\ ~cleanedUp[1]) =>
          /\ Cardinality(timers) = 1
          /\ \A t \in timers : t.id = glitchTimeoutRef /\ t.cb # "start"
    /\ (history # << >> /\ cleanedUp[1]) => timers = {}

\* in the second burst the slot holds the handle of the pending step timer,
\* not the one of the idle-wait timer that has fired
C14_Witness ==
    /\ ~cleanedUp[1]
    /\ Len(history) > Len(cfg.steps)
    /\ \E t \in timers : t.cb = "animateNextStep" /\ t.id = glitchTimeoutRef
    /\ glitchTimeoutRef > startAnimationTimeout[1] + Len(cfg.steps) + 2

\* C15: while the trailing tick or an idle-wait is pending the opacity is the
\* last value of the step list, and once the first burst has started the
\* opacity is never 0 again, also after the cleanup.
C15_OpacityHeld ==
    /\ currentStepInSequence[1] = Len(cfg.steps)
          => iconOpacity = cfg.steps[Len(cfg.steps)]
    /\ (\E t \in timers : t.cb = "runFullGlitchSequence")
          => iconOpacity = cfg.steps[Len(cfg.steps)]
    /\ history # << >> => iconOpacity # 0

\* stopped during the second idle-wait: the opacity stays at the last value
C15_Witness ==
    /\ cleanedUp[1]
    /\ Len(waits) = 2
    /\ Len(history) = 2 * Len(cfg.steps)
    /\ iconOpacity = cfg.steps[Len(cfg.steps)]
    /\ now > waits[2].t

----------------------------------------------------------------------------
(* Properties of App and Helmet *)

\* C8: while the resize listener is registered, modelScale is 2.08 when
\* window.innerWidth <= 768 and 2.6 otherwise, whatever the earlier widths.
C8_ResponsiveScale ==
    appPhase = "mounted" =>
        /\ innerWidth <= 768 => modelScale = 208
        /\ innerWidth > 768 => modelScale = 260

\* mounted with the boundary width
C8_Witness ==
    /\ appPhase = "mounted"
    /\ innerWidth = 768
    /\ modelScale = 208

\* the node map has no mesh
NoMesh == \A i \in 1 .. Len(nodes) : ~IsMesh(nodes[i])

\* C10: with no mesh in the node map every render of Helmet returns null
\* and emits one warning.
C10_AssetMissing ==
    (NoMesh /\ helmetRenders > 0) =>
        /\ helmetOut = "null"
        /\ helmetObject = 0
        /\ helmetWarnings = helmetRenders

\* a node map of non-mesh nodes has been rendered
C10_Witness ==
    /\ NoMesh
    /\ Len(nodes) >= 2
    /\ helmetRenders = 1
    /\ helmetOut = "null"
    /\ helmetWarnings = 1

\* C12: the resize listener is registered exactly while App is mounted;
\* after the unmount no listener is left and a resize event does not change
\* modelScale.
C12_ResizeTeardown ==
    /\ [](("handleResize" \in resizeListeners) <=> (appPhase = "mounted"))
    /\ [](appPhase = "unmounted" => resizeListeners = {})
    /\ [][appPhase = "unmounted" => modelScale' = modelScale]_vars

\* unmounted at a large width, then resized to a small one: scale unchanged
C12_Witness ==
    /\ appPhase = "unmounted"
    /\ resizeListeners = {}
    /\ innerWidth = 500
    /\ modelScale = 260

\* C16: with a mesh in the node map Helmet renders the first mesh of the
\* enumeration order: the nodes before it are not meshes, later meshes are
\* ignored, and no warning is emitted.
C16_FirstMesh ==
    (~NoMesh /\ helmetRenders > 0) =>
        /\ helmetOut = "group"
        /\ helmetObject \in 1 .. Len(nodes)
        /\ IsMesh(nodes[helmetObject])
        /\ \A i \in 1 .. (helmetObject - 1) : ~IsMesh(nodes[i])
        /\ helmetWarnings = 0

\* a non-mesh node first, then two meshes: the first of the two is rendered
C16_Witness ==
    /\ helmetRenders > 0
    /\ Len(nodes) >= 3
    /\ ~IsMesh(nodes[1])
    /\ IsMesh(nodes[2])
    /\ IsMesh(nodes[3])
    /\ helmetObject = 2

\* C17: once the renderer exists and the bgColor effect has run, the clear
\* colour is the most recent bgColor; while no renderer exists a change of
\* bgColor makes no renderer call (and the effect completes).
C17_LastWriteWins ==
    /\ (rendererRef /\ ~bgEffectPending) => clearColor = bgColor
    /\ ~rendererRef => (clearColor = "none" /\ setClearColorCalls = 0)

\* the renderer was created and the colour changed several times since
C17_Witness ==
    /\ rendererRef
    /\ ~bgEffectPending
    /\ setClearColorCalls = MaxClearColorCalls
    /\ bgColor # "#ffffff"
    /\ clearColor = bgColor

====
